---- MODULE Spec2Model ----
(***************************************************************************)
(* inspect_excel.py: load one spreadsheet with pandas.read_excel, print    *)
(* its column list, its first five rows and its column types, and report   *)
(* any exception of the try block as one error line.                       *)
(*                                                                         *)
(* One run of the script is the statement sequence of the module; the      *)
(* model executes one statement per step.  The file behind file_path and   *)
(* the encoding of standard output are the environment: both are chosen in *)
(* Init and are the same for every run of one behaviour.  The script's     *)
(* imports are taken to succeed (pandas is installed).                     *)
(***************************************************************************)
EXTENDS Integers, Sequences, FiniteSets, TLC

\* ---- bounds of the model -------------------------------------------------
MaxCols == 2
MaxRows == 6
MaxRuns == 2

\* ---- program constants ---------------------------------------------------
\* file_path = "d:/Chart Builder/Population Both sex.xlsx"
file_path == "d:/Chart Builder/Population Both sex.xlsx"

\* df.head() is called without argument: pandas' default n
HeadRows == 5

VARIABLES
    file,         \* what is stored at file_path: kind and, for a workbook, its first worksheet
    encoding,     \* encoding of sys.stdout
    run,          \* number of the current run of the script
    pc,           \* statement the run is at
    df,           \* the variable df
    exc,          \* the exception in flight / bound to e
    out,          \* what the run has written to standard output so far
    loads,        \* calls of pd.read_excel made by the run
    exit_status,  \* exit status of the finished run, -1 while it runs
    history       \* the outputs of the earlier runs, oldest first

vars == <<file, encoding, run, pc, df, exc, out, loads, exit_status, history>>

\* ---- the worksheet ---------------------------------------------------------
\* A text that sys.stdout can encode only when its encoding is utf-8
Snowman == "U+2603"

EmptyCell == [t |-> "empty", v |-> ""]
SnowCell == [t |-> "str", v |-> Snowman]

HeaderCells == {"", "a", "b", Snowman}
ColKinds == {"int", "str"}

\* The contents of the columns of a sheet: numbers and texts in turn, from a first kind
KindsFrom(first, W) ==
    [c \in 1..W |-> IF c % 2 = 1 THEN first ELSE IF first = "int" THEN "str" ELSE "int"]
Encodings == {"utf-8", "cp1252"}

\* The cell of an ordinary column: a number or a text, different in every position
PlainCell(kind, r, c) ==
    IF kind = "int" THEN [t |-> "int", v |-> ToString(10 * r + c)]
    ELSE [t |-> "str", v |-> "s" \o ToString(10 * r + c)]

\* The cells of a sheet that are not ordinary: none (r = 0), or one cell of the
\* last column that is empty or holds the snowman, in the first data row or in
\* the row after the preview
Specials(W, n) ==
    {[r |-> 0, c |-> 0, cell |-> EmptyCell]} \cup
    {[r |-> r, c |-> W, cell |-> cell] :
        r \in {1, HeadRows + 1} \cap (1..n), cell \in {EmptyCell, SnowCell}}

Grid(kinds, n, sp) ==
    [r \in 1..n |->
        [c \in 1..Len(kinds) |->
            IF sp.r = r /\ sp.c = c THEN sp.cell ELSE PlainCell(kinds[c], r, c)]]

\* The worksheets of the model: a header row of W cells and n data rows of W cells
Sheets ==
    UNION {
        {[header |-> h, rows |-> Grid(KindsFrom(first, W), n, sp)] :
            h \in [1..W -> HeaderCells], first \in ColKinds, sp \in Specials(W, n)} :
        W \in 1..MaxCols, n \in 0..MaxRows}

NoSheet == [header |-> <<>>, rows |-> <<>>]

Files ==
    {[kind |-> "missing", sheet |-> NoSheet], [kind |-> "corrupt", sheet |-> NoSheet]} \cup
    {[kind |-> "xlsx", sheet |-> s] : s \in Sheets}

\* ---- pd.read_excel ---------------------------------------------------------
\* Number of cells before position i of the header that hold the same text
Earlier(header, i) == Cardinality({j \in 1..(i - 1) : header[j] = header[i]})

\* Variant of MangleDupeCols: columns with an empty header cell are left out
MangleDupeColsDropEmpty(header) == SelectSeq(header, LAMBDA h : h # "")

\* The column labels read_excel makes of the header row (header=0): an empty cell
\* becomes "Unnamed: <position>", the k-th repeat of a text becomes "<text>.<k>"
MangleDupeCols(header) ==
    [i \in 1..Len(header) |->
        IF header[i] = "" THEN "Unnamed: " \o ToString(i - 1)
        ELSE IF Earlier(header, i) = 0 THEN header[i]
        ELSE header[i] \o "." \o ToString(Earlier(header, i))]

Column(rows, c) == [r \in 1..Len(rows) |-> rows[r][c]]

\* The dtype read_excel infers for a column
InferDtype(col) ==
    IF Len(col) = 0 THEN "object"
    ELSE IF \E r \in 1..Len(col) : col[r].t = "str" THEN "object"
    ELSE IF \E r \in 1..Len(col) : col[r].t = "empty" THEN "float64"
    ELSE "int64"

NaN == [t |-> "float", v |-> "NaN"]

\* The value a cell has in a column of the given dtype
ConvertCell(cell, dtype) ==
    IF cell.t = "empty" THEN NaN
    ELSE IF dtype = "float64" THEN [t |-> "float", v |-> cell.v \o ".0"]
    ELSE cell

NoDF == [bound |-> FALSE, columns |-> <<>>, index |-> <<>>, rows |-> <<>>, dtypes |-> <<>>]

\* The DataFrame read_excel returns for a worksheet: labels, RangeIndex, values, dtypes
ParseSheet(sheet) ==
    LET W == Len(sheet.header)
        n == Len(sheet.rows)
        dt == [c \in 1..W |-> InferDtype(Column(sheet.rows, c))]
    IN  [bound |-> TRUE,
         columns |-> MangleDupeCols(sheet.header),
         index |-> [r \in 1..n |-> r - 1],
         rows |-> [r \in 1..n |-> [c \in 1..W |-> ConvertCell(sheet.rows[r][c], dt[c])]],
         dtypes |-> dt]

NoExc == [cls |-> "", msg |-> ""]

\* The exception read_excel raises for a file that is not a readable workbook
LoadError(f) ==
    IF f.kind = "missing"
    THEN [cls |-> "FileNotFoundError",
          msg |-> "[Errno 2] No such file or directory: '" \o file_path \o "'"]
    ELSE [cls |-> "ValueError",
          msg |-> "Excel file format cannot be determined, you must specify an engine manually."]

\* ---- print -----------------------------------------------------------------
HasSnowman(s) ==
    \E k \in 1..Len(s) : k + Len(Snowman) - 1 <= Len(s) /\ SubSeq(s, k, k + Len(Snowman) - 1) = Snowman

\* sys.stdout.write(s) encodes s: it raises UnicodeEncodeError when it cannot
CanEncode(lines, enc) ==
    enc = "utf-8" \/ \A i \in 1..Len(lines) : \A j \in 1..Len(lines[i]) : ~HasSnowman(lines[i][j])

EncodeError == [cls |-> "UnicodeEncodeError", msg |-> "'charmap' codec can't encode character '\\u2603'"]

\* One write to standard output: a literal text, or the text of a value (lines of fields)
Item(kind, text, value) == [kind |-> kind, text |-> text, value |-> value]

\* The text of a list of labels, as print shows it: one line
ListText(labels) == <<labels>>

\* Variant of head: the last HeadRows rows of the frame (what df.tail() returns)
headFromEnd(frame) ==
    LET n == Len(frame.rows)
        m == IF n < HeadRows THEN n ELSE HeadRows
    IN  [frame EXCEPT !.index = SubSeq(frame.index, n - m + 1, n),
                      !.rows = SubSeq(frame.rows, n - m + 1, n)]

\* df.head(): the first HeadRows rows of the frame, all of them when it has fewer
head(frame) ==
    LET m == IF Len(frame.rows) < HeadRows THEN Len(frame.rows) ELSE HeadRows
    IN  [frame EXCEPT !.index = SubSeq(frame.index, 1, m), !.rows = SubSeq(frame.rows, 1, m)]

\* The text of a frame: the line of column labels, then one line per row that
\* starts with the row's index label
FrameText(frame) ==
    <<(<<"">> \o frame.columns)>> \o
    [r \in 1..Len(frame.rows) |->
        <<ToString(frame.index[r])>> \o [c \in 1..Len(frame.rows[r]) |-> frame.rows[r][c].v]]

\* Variant of Dtypes: only the columns of a numeric dtype are listed
DtypesNumericOnly(frame) ==
    SelectSeq([c \in 1..Len(frame.columns) |-> <<frame.columns[c], frame.dtypes[c]>>],
              LAMBDA entry : entry[2] # "object")

\* df.dtypes: the Series of the columns' dtypes, indexed by the column labels
Dtypes(frame) == [c \in 1..Len(frame.columns) |-> <<frame.columns[c], frame.dtypes[c]>>]

\* The text of a Series: one line per entry, then the line of its own dtype
SeriesText(series) == series \o << <<"dtype: object">> >>

\* Variant of ErrorLine: the message without the exception's text
ErrorLineNoText(e) == Item("error", "Error reading Excel file: ", <<>>)

\* f"Error reading Excel file: {e}"
ErrorLine(e) == Item("error", "Error reading Excel file: " \o e.msg, <<>>)

\* ---- exceptions ------------------------------------------------------------
\* The base class of a built-in exception class
Base(cls) ==
    CASE cls = "FileNotFoundError" -> "OSError"
      [] cls = "OSError" -> "Exception"
      [] cls = "UnicodeEncodeError" -> "UnicodeError"
      [] cls = "UnicodeError" -> "ValueError"
      [] cls = "ValueError" -> "Exception"
      [] cls = "Exception" -> "BaseException"
      [] OTHER -> "object"

RECURSIVE IsSubclass(_, _)
IsSubclass(cls, of) ==
    IF cls = of THEN TRUE
    ELSE IF cls \in {"object", "BaseException"} THEN FALSE
    ELSE IsSubclass(Base(cls), of)

\* Variant of Handled: the except clause names OSError only
HandledOSError == "OSError"

\* The class the except clause names
Handled == "Exception"

\* ---- the run ---------------------------------------------------------------
Init ==
    /\ file \in Files
    /\ encoding \in Encodings
    /\ run = 1
    /\ pc = "start"
    /\ df = NoDF
    /\ exc = NoExc
    /\ out = <<>>
    /\ loads = 0
    /\ exit_status = -1
    /\ history = <<>>

\* import pandas as pd; import os; file_path = ...
Setup ==
    /\ pc = "start"
    /\ pc' = "read"
    /\ UNCHANGED <<file, encoding, run, df, exc, out, loads, exit_status, history>>

\* df = pd.read_excel(file_path)
ReadExcel ==
    /\ pc = "read"
    /\ loads' = loads + 1
    /\ IF file.kind = "xlsx"
       THEN /\ df' = ParseSheet(file.sheet)
            /\ pc' = "columns"
            /\ exc' = exc
       ELSE /\ exc' = LoadError(file)
            /\ pc' = "except"
            /\ df' = df
    /\ UNCHANGED <<file, encoding, run, out, exit_status, history>>

\* print("Columns:", df.columns.tolist())
PrintColumns ==
    /\ pc = "columns"
    /\ LET label == Item("label", "Columns:", <<>>)
           text == ListText(df.columns)
       IN  IF CanEncode(text, encoding)
           THEN /\ out' = out \o <<label, Item("columns", "", text)>>
                /\ pc' = "head_label"
                /\ exc' = exc
           ELSE /\ out' = Append(out, label)
                /\ exc' = EncodeError
                /\ pc' = "except"
    /\ UNCHANGED <<file, encoding, run, df, loads, exit_status, history>>

\* Variant of PrintHeadLabel: the statement after it is skipped
PrintHeadLabelSkipsHead ==
    /\ pc = "head_label"
    /\ out' = Append(out, Item("label", "First 5 rows:", <<>>))
    /\ pc' = "types_label"
    /\ UNCHANGED <<file, encoding, run, df, exc, loads, exit_status, history>>

\* print("\nFirst 5 rows:")
PrintHeadLabel ==
    /\ pc = "head_label"
    /\ out' = Append(out, Item("label", "First 5 rows:", <<>>))
    /\ pc' = "head"
    /\ UNCHANGED <<file, encoding, run, df, exc, loads, exit_status, history>>

\* Variant of PrintHead: df = df.head() before the print
PrintHeadInPlace ==
    /\ pc = "head"
    /\ df' = head(df)
    /\ LET text == FrameText(head(df))
       IN  IF CanEncode(text, encoding)
           THEN /\ out' = Append(out, Item("head", "", text))
                /\ pc' = "types_label"
                /\ exc' = exc
           ELSE /\ out' = out
                /\ exc' = EncodeError
                /\ pc' = "except"
    /\ UNCHANGED <<file, encoding, run, loads, exit_status, history>>

\* print(df.head())
PrintHead ==
    /\ pc = "head"
    /\ LET text == FrameText(head(df))
       IN  IF CanEncode(text, encoding)
           THEN /\ out' = Append(out, Item("head", "", text))
                /\ pc' = "types_label"
                /\ exc' = exc
           ELSE /\ out' = out
                /\ exc' = EncodeError
                /\ pc' = "except"
    /\ UNCHANGED <<file, encoding, run, df, loads, exit_status, history>>

\* print("\nData Types:")
PrintTypesLabel ==
    /\ pc = "types_label"
    /\ out' = Append(out, Item("label", "Data Types:", <<>>))
    /\ pc' = "dtypes"
    /\ UNCHANGED <<file, encoding, run, df, exc, loads, exit_status, history>>

\* print(df.dtypes)
PrintDtypes ==
    /\ pc = "dtypes"
    /\ LET text == SeriesText(Dtypes(df))
       IN  IF CanEncode(text, encoding)
           THEN /\ out' = Append(out, Item("dtypes", "", text))
                /\ pc' = "end"
                /\ exc' = exc
           ELSE /\ out' = out
                /\ exc' = EncodeError
                /\ pc' = "except"
    /\ UNCHANGED <<file, encoding, run, df, loads, exit_status, history>>

\* Variant of ExceptClause: the handler prints nothing (pass)
ExceptClauseSilent ==
    /\ pc = "except"
    /\ exc' = IF IsSubclass(exc.cls, Handled) THEN NoExc ELSE exc
    /\ pc' = "end"
    /\ UNCHANGED <<file, encoding, run, df, out, loads, exit_status, history>>

\* Variant of ExceptClause: the handler prints the error line and raises again
ExceptClauseReraise ==
    /\ pc = "except"
    /\ out' = IF IsSubclass(exc.cls, Handled) THEN Append(out, ErrorLine(exc)) ELSE out
    /\ pc' = "end"
    /\ UNCHANGED <<file, encoding, run, df, exc, loads, exit_status, history>>

\* except Exception as e: print(f"Error reading Excel file: {e}")
\* An exception of another class leaves the try statement in flight.
ExceptClause ==
    /\ pc = "except"
    /\ IF IsSubclass(exc.cls, Handled)
       THEN /\ out' = Append(out, ErrorLine(exc))
            /\ exc' = NoExc
       ELSE /\ out' = out
            /\ exc' = exc
    /\ pc' = "end"
    /\ UNCHANGED <<file, encoding, run, df, loads, exit_status, history>>

\* End of the module: the interpreter exits, with status 1 when an exception is in flight
Exit ==
    /\ pc = "end"
    /\ exit_status' = IF exc = NoExc THEN 0 ELSE 1
    /\ pc' = "done"
    /\ UNCHANGED <<file, encoding, run, df, exc, out, loads, history>>

\* Variant of Rerun: the next run starts with the output of the last one
RerunKeepsOutput ==
    /\ pc = "done"
    /\ run < MaxRuns
    /\ history' = Append(history, out)
    /\ run' = run + 1
    /\ pc' = "start"
    /\ df' = NoDF
    /\ exc' = NoExc
    /\ loads' = 0
    /\ exit_status' = -1
    /\ UNCHANGED <<file, encoding, out>>

\* The script is run again: a new process, nothing kept but the file
Rerun ==
    /\ pc = "done"
    /\ run < MaxRuns
    /\ history' = Append(history, out)
    /\ run' = run + 1
    /\ pc' = "start"
    /\ df' = NoDF
    /\ exc' = NoExc
    /\ out' = <<>>
    /\ loads' = 0
    /\ exit_status' = -1
    /\ UNCHANGED <<file, encoding>>

Next ==
    \/ Setup
    \/ ReadExcel
    \/ PrintColumns
    \/ PrintHeadLabel
    \/ PrintHead
    \/ PrintTypesLabel
    \/ PrintDtypes
    \/ ExceptClause
    \/ Exit
    \/ Rerun

Spec == Init /\ [][Next]_vars

\* Every statement of a run is executed: the interpreter does not stop on its own
FairSpec == Spec /\ WF_vars(Next)

\* ---- what a run has printed -----------------------------------------------
\* The parts of an output, in order: a label by its text, a value by its kind
Tags(o) == [i \in 1..Len(o) |-> IF o[i].kind = "label" THEN o[i].text ELSE o[i].kind]

\* The parts of the output of a run in which no statement raised
Success == <<"Columns:", "columns", "First 5 rows:", "head", "Data Types:", "dtypes">>

Prefix(s, k) == SubSeq(s, 1, k)

Printed(kind) == {i \in 1..Len(out) : out[i].kind = kind}

Finished == pc = "done"

LoadFailed == loads = 1 /\ file.kind # "xlsx"

\* ---- C1 --------------------------------------------------------------------
\* C1: when the load fails (file missing or corrupt) nothing is printed before
\* the handler runs, and from then on the whole output of the run is the one
\* line "Error reading Excel file: " followed by the text of the exception the
\* load raised.
C1_LoadFailureIsOneErrorLine ==
    LoadFailed =>
        /\ pc = "except" => out = <<>>
        /\ pc \in {"end", "done"} =>
              out = <<[kind |-> "error",
                       text |-> "Error reading Excel file: " \o LoadError(file).msg,
                       value |-> <<>>]>>

C1_Witness == Finished /\ LoadFailed /\ file.kind = "corrupt" /\ Len(out) = 1

\* ---- C2 --------------------------------------------------------------------
\* C2 as stated: the list printed after "Columns:" equals the header row of the
\* sheet cell for cell, also when header cells are repeated or empty.
C2_Original_ListEqualsHeaderRow ==
    \A i \in Printed("columns") : out[i].value = <<file.sheet.header>>

\* C2 amended: the list printed after "Columns:" has the length of the header
\* row, and its entry at a position equals the header cell there exactly when
\* that cell is not empty and does not repeat an earlier header cell; so the
\* list equals the header row when the header cells are non-empty and pairwise
\* different.
C2_ListEqualsHeaderRowUpToMangling ==
    \A i \in Printed("columns") :
        LET list == out[i].value[1]
            header == file.sheet.header
        IN  /\ Len(out[i].value) = 1
            /\ Len(list) = Len(header)
            /\ \A k \in 1..Len(header) :
                  (list[k] = header[k]) <=>
                      (header[k] # "" /\ \A j \in 1..(k - 1) : header[j] # header[k])

C2_Witness ==
    /\ Finished
    /\ Printed("columns") # {}
    /\ file.sheet.header = <<"a", "">>
    /\ out[2].value = <<(<<"a", "Unnamed: 1">>)>>

\* ---- C3 --------------------------------------------------------------------
\* The line print shows for data row r of the sheet once loaded: its index label
\* r - 1 and its cells as values of their columns
SheetRowText(sheet, r) ==
    <<ToString(r - 1)>> \o
    [c \in 1..Len(sheet.header) |->
        ConvertCell(sheet.rows[r][c], InferDtype(Column(sheet.rows, c))).v]

C4_EveryExceptionIsHandled ==
    [][/\ pc = "except" =>
             /\ out' = Append(out, [kind |-> "error",
                                    text |-> "Error reading Excel file: " \o exc.msg,
                                    value |-> <<>>])
             /\ exc' = NoExc
             /\ pc' = "end"
       /\ (Printed("error") # {} /\ pc' # "start") => out' = out
       /\ pc' \in {"end", "done"} => exc' = NoExc
       /\ exit_status' # 1]_vars

C4_Witness ==
    /\ Finished
    /\ file.kind = "xlsx"
    /\ Len(out) = 4
    /\ out[4].kind = "error"
    /\ exit_status = 0

\* ---- C5 --------------------------------------------------------------------
\* C5 as stated: the output of a run is the three success sections without an
\* error line, or a single error line and nothing else.
C5_Original_TwoShapes ==
    Finished => Tags(out) = Success \/ Tags(out) = <<"error">>

\* C5 amended: the output of a run is the three success sections without an
\* error line, or an initial part of them (empty when the load failed) followed
\* by a single error line.
C5_SuccessOrPrefixThenErrorLine ==
    Finished =>
        /\ \/ Tags(out) = Success
           \/ \E k \in 0..(Len(Success) - 1) : Tags(out) = Append(Prefix(Success, k), "error")
        /\ file.kind # "xlsx" => Tags(out) = <<"error">>

C5_Witness == Finished /\ Tags(out) = <<"Columns:", "error">>

\* ---- C6 --------------------------------------------------------------------
\* C6: a run calls read_excel at most once, and a run whose load failed ends as
\* a successful run does: every finished run has exit status 0.
C6_OneLoadAndSameExitStatus ==
    /\ loads <= 1
    /\ Finished => exit_status = 0 /\ loads = 1

C6_Witness == Finished /\ file.kind = "missing" /\ loads = 1 /\ exit_status = 0

DtypeNames == {"object", "int64", "float64"}

C9_InspectionOnlyPrints ==
    [][/\ file' = file
       /\ (df.bound /\ pc' # "start") => (df' = df /\ df = ParseSheet(file.sheet))
       /\ pc \in {"columns", "head_label", "head", "types_label", "dtypes"} =>
             /\ Len(out') >= Len(out)
             /\ Prefix(out', Len(out)) = out
             /\ <<encoding, run, loads, exit_status, history>>' =
                    <<encoding, run, loads, exit_status, history>>]_vars

C9_Witness ==
    /\ Finished
    /\ df.bound
    /\ Len(df.rows) > 5
    /\ Tags(out) = Success

\* ---- C10 -------------------------------------------------------------------
\* Position of a statement in the run
Rank(p) ==
    CASE p = "start" -> 0 [] p = "read" -> 1 [] p = "columns" -> 2 [] p = "head_label" -> 3
      [] p = "head" -> 4 [] p = "types_label" -> 5 [] p = "dtypes" -> 6 [] p = "except" -> 7
      [] p = "end" -> 8 [] OTHER -> 9

\* The output so far keeps the order Columns, preview, types; an error line is last
InOrder ==
    /\ \/ \E k \in 0..Len(Success) : Tags(out) = Prefix(Success, k)
       \/ \E k \in 0..(Len(Success) - 1) : Tags(out) = Append(Prefix(Success, k), "error")
    /\ (out # <<>> /\ out[1].kind # "error") => (loads = 1 /\ df.bound)

\* C10: in every run the output is in order and each part is printed at most
\* once: "Columns:" only after the load succeeded, the preview only after it,
\* the types only after the preview, the error line at most once and last; every
\* step moves the run forward and every run ends.
C10_OrderedSinglePass ==
    /\ []InOrder
    /\ [][pc' # "start" => Rank(pc') > Rank(pc)]_vars
    /\ (pc = "start") ~> Finished

C10_Witness ==
    /\ Finished
    /\ run = MaxRuns
    /\ Tags(out) = <<"Columns:", "columns", "First 5 rows:", "error">>

====
